---------------------------- MODULE Spec2Model ----------------------------
(***************************************************************************)
(* A model of AppRegistry (src/app_registry.py): the name -> executable    *)
(* path registry, its four discovery strategies, the lookups with exact,   *)
(* partial and on-demand resolution, and add_app.                          *)
(*                                                                         *)
(* Strings on which the code computes (names, file names, window patterns) *)
(* are sequences of one-character strings, so lower(), title(), splitext,  *)
(* split and the substring test are computed, not assumed.  A path is the  *)
(* sequence of its components, os.path.join appends a component, and the   *)
(* empty path is the empty string ''.                                      *)
(***************************************************************************)
EXTENDS Integers, Sequences, FiniteSets, TLC

\* ------------------------------------------------------------------ bounds

\* Things the environment holds beyond its fixed part: registry subkeys,
\* executables in the search directories, executables `where` finds, PATH entries.
MaxItems == 2
\* Registry-changing calls (add_app, a successful on-demand resolution, a
\* later run of _discover_apps) after construction in one behaviour.
MaxCalls == 1

\* -------------------------------------------------------- string functions

Letters == {"a", "b", "c", "s", "t", "e", "x", "y", "w", "d", "p", "g"}
Capitals == {"A", "B", "C", "S", "T", "E", "X", "Y", "W", "D", "P", "G"}

\* str.lower() on one character.
LowerChar(c) ==
    CASE c = "A" -> "a" [] c = "B" -> "b" [] c = "C" -> "c" [] c = "S" -> "s"
      [] c = "T" -> "t" [] c = "E" -> "e" [] c = "X" -> "x" [] c = "Y" -> "y"
      [] c = "W" -> "w" [] c = "D" -> "d" [] c = "P" -> "p" [] c = "G" -> "g"
      [] OTHER -> c

\* str.upper() on one character.
UpperChar(c) ==
    CASE c = "a" -> "A" [] c = "b" -> "B" [] c = "c" -> "C" [] c = "s" -> "S"
      [] c = "t" -> "T" [] c = "e" -> "E" [] c = "x" -> "X" [] c = "y" -> "Y"
      [] c = "w" -> "W" [] c = "d" -> "D" [] c = "p" -> "P" [] c = "g" -> "G"
      [] OTHER -> c

IsCased(c) == c \in Letters \cup Capitals

\* str.lower()
Lower(s) == [i \in 1..Len(s) |-> LowerChar(s[i])]

\* str.title(): a cased character is upper-cased when it starts the string or
\* follows an uncased character, and lower-cased otherwise.
Title(s) ==
    [i \in 1..Len(s) |->
        IF i = 1 \/ ~IsCased(s[i - 1]) THEN UpperChar(s[i]) ELSE LowerChar(s[i])]

\* The Python test `needle in hay` on strings.
Contains(hay, needle) ==
    \E i \in 0..(Len(hay) - Len(needle)) :
        \A j \in 1..Len(needle) : hay[i + j] = needle[j]

\* str.endswith
EndsWith(s, suffix) ==
    /\ Len(suffix) <= Len(s)
    /\ \A j \in 1..Len(suffix) : s[Len(s) - Len(suffix) + j] = suffix[j]

\* os.path.splitext(name)[0] for a name without separators: the name up to its
\* last dot, the whole name when it has no dot or only leading dots before it.
SplitextRoot(s) ==
    LET dots == {i \in 1..Len(s) : s[i] = "."}
    IN  IF dots = {} THEN s
        ELSE LET last == CHOOSE i \in dots : \A j \in dots : j <= i
             IN  IF \A j \in 1..(last - 1) : s[j] = "." THEN s
                 ELSE SubSeq(s, 1, last - 1)

\* str.split(): the whitespace-separated words of s.
RECURSIVE SplitWords(_)
SplitWords(s) ==
    IF s = <<>> THEN <<>>
    ELSE IF s[1] = " " THEN SplitWords(Tail(s))
    ELSE LET ends == {i \in 1..Len(s) : s[i] = " "}
             stop == IF ends = {} THEN Len(s) + 1
                     ELSE CHOOSE i \in ends : \A j \in ends : i <= j
         IN  <<SubSeq(s, 1, stop - 1)>> \o SplitWords(SubSeq(s, stop, Len(s)))

\* stdout.strip() on a captured output given as its lines: the blank lines at
\* both ends go (an output of blank lines only becomes the empty output).
RECURSIVE StripLines(_)
StripLines(lines) ==
    IF lines = <<>> THEN <<>>
    ELSE IF Head(lines) = <<>> THEN StripLines(Tail(lines))
    ELSE IF lines[Len(lines)] = <<>> THEN StripLines(SubSeq(lines, 1, Len(lines) - 1))
    ELSE lines

\* str.split('\n') on the stripped output: the empty string splits into one
\* empty line, never into no line.
SplitNewline(lines) == IF lines = <<>> THEN << <<>> >> ELSE lines

\* os.path.join(path, name)
Join(path, name) == Append(path, name)

LowerPath(p) == [i \in 1..Len(p) |-> Lower(p[i])]


\* ------------------------------------------------------------- environment

\* Short names for the strings of the model.
a_exe == <<"a", ".", "e", "x", "e">>
b_exe == <<"b", ".", "e", "x", "e">>
B_EXE == <<"B", ".", "E", "X", "E">>
c_exe == <<"c", ".", "e", "x", "e">>
w_exe == <<"w", ".", "e", "x", "e">>
S_EXE == <<"S", ".", "E", "X", "E">>
a_txt == <<"a", ".", "t">>
dot_exe == <<".", "e", "x", "e">>

\* self.common_apps: application name -> candidate executable file names.  The
\* table is cut to two rows of the shapes the 13 rows have: one candidate
\* ("chrome": ["chrome.exe"]) and two candidates differing in case
\* ("word": ["WINWORD.EXE", "winword.exe"]).  No name is a substring of another.
common_apps ==
    << [name |-> <<"a">>, exes |-> <<a_exe>>],
       [name |-> <<"b">>, exes |-> <<B_EXE, b_exe>>] >>

\* self.window_patterns as __init__ sets it, cut to the same two names: one
\* pattern unrelated to the name ("chrome": "Google Chrome") and one equal to
\* the title-cased name ("notepad": "Notepad").
InitialWindowPatterns ==
    << [name |-> <<"a">>, pattern |-> <<"G", " ", "A">>],
       [name |-> <<"b">>, pattern |-> <<"B">>] >>

\* The environment variables' directories (the defaults of _get_search_paths).
system_root == << <<"w">> >>
program_files == << <<"p">> >>
program_files_x86 == << <<"x">> >>
\* USERPROFILE when it is set; '' when it is not.
UserProfile == << <<"u">> >>
\* A directory that is on PATH only, and one that PATH names but does not exist.
ToolsDir == << <<"t">> >>
NoSuchDir == << <<"n">> >>
\* Where the registry hives point: App Paths targets and install locations.
TargetDir == << <<"g">> >>
InstallDir == << <<"d">> >>

Target1 == Join(TargetDir, a_exe)
Target2 == Join(TargetDir, <<"a", ".", "y">>)
TargetGone == Join(TargetDir, c_exe)

\* The file system's fixed part.  Of the directories of _get_search_paths,
\* SysWOW64, Program Files (x86) and what lies below it do not exist.
FixedDirs ==
    { system_root, Join(system_root, <<"s">>), program_files, ToolsDir,
      TargetDir, InstallDir, UserProfile, Join(UserProfile, <<"l">>) }
FixedFiles ==
    { Target1, Target2,
      Join(InstallDir, a_txt), Join(InstallDir, S_EXE), Join(InstallDir, w_exe) }

\* Executables that may or may not be installed below the search directories.
VarFiles ==
    { Join(Join(system_root, <<"s">>), a_exe),
      Join(program_files, a_exe),
      Join(Join(program_files, <<"e">>), a_exe),
      Join(Join(system_root, <<"s">>), b_exe),
      Join(ToolsDir, b_exe) }

\* os.listdir returns the names in the volume's order: a fixed order here.
DirOrder == << a_txt, S_EXE, a_exe, <<"a", ".", "y">>, b_exe, c_exe, <<"e">>,
               <<"l">>, <<"s">>, w_exe >>

\* What one run of `where <exe>` can do: exit 1, raise (no such command), or
\* exit 0 with the given output lines.
WhereFail == [kind |-> "fail", lines |-> <<>>]
WhereRaise == [kind |-> "raise", lines |-> <<>>]
WhereOk(lines) == [kind |-> "ok", lines |-> lines]
Found1 == Join(ToolsDir, w_exe)
Found2 == Join(Join(system_root, <<"s">>), w_exe)
\* Outcomes of the probe of on-demand resolution.
WhereOutcomes == { WhereFail, WhereRaise, WhereOk(<<Found2, Found1>>), WhereOk(<<>>) }
\* Outcomes for the well-known executables during discovery.
WhereTables ==
    { w \in [ {a_exe, b_exe} ->
                {WhereFail, WhereRaise, WhereOk(<<Found1>>), WhereOk(<<>>),
                 WhereOk(<< <<>>, Found2, Found1 >>)} ] :
        /\ w[a_exe] \in {WhereFail, WhereRaise, WhereOk(<<Found1>>), WhereOk(<<>>)}
        /\ w[a_exe] = WhereRaise => w[b_exe] = WhereRaise
        /\ w[b_exe] \in {WhereFail, WhereRaise, WhereOk(<< <<>>, Found2, Found1 >>)} }

\* App Paths subkeys: the subkey name and its default value; kind "novalue" is
\* a subkey whose OpenKey or QueryValueEx raises OSError.
AppPathEntries ==
    { [kind |-> "ok", subkey |-> a_exe, value |-> Target1],
      [kind |-> "ok", subkey |-> <<"A", ".", "y">>, value |-> Target2],
      [kind |-> "ok", subkey |-> c_exe, value |-> TargetGone],
      [kind |-> "ok", subkey |-> <<"C", ".", "y">>, value |-> Target2],
      [kind |-> "novalue", subkey |-> b_exe, value |-> <<>>] }

\* Uninstall subkeys: "ok" has DisplayName and InstallLocation, "novalue" lacks
\* one of them (QueryValueEx raises), "noopen" cannot be opened (OpenKey raises).
UninstallEntries ==
    { [kind |-> "ok", display |-> <<"A", " ", "b">>, location |-> InstallDir],
      [kind |-> "ok", display |-> <<"C">>, location |-> InstallDir],
      [kind |-> "ok", display |-> <<"B">>, location |-> NoSuchDir],
      [kind |-> "ok", display |-> <<" ">>, location |-> InstallDir],
      [kind |-> "novalue", display |-> <<>>, location |-> <<>>],
      [kind |-> "noopen", display |-> <<>>, location |-> <<>>] }

\* The PATH variable split at os.pathsep: unset (''.split gives ['']), one
\* directory, a directory twice and one of the system directories again, a
\* directory that does not exist.
PathVars ==
    { << <<>> >>,
      << ToolsDir >>,
      << Join(system_root, <<"s">>), ToolsDir, ToolsDir >>,
      << NoSuchDir, ToolsDir >> }

\* Sequences of exactly n elements of S, none twice.
RECURSIVE SeqsOfLen(_, _)
SeqsOfLen(S, n) ==
    IF n = 0 THEN {<<>>}
    ELSE {Append(q, x) : q \in SeqsOfLen(S, n - 1), x \in S}

NoRepeat(q) == \A i, j \in 1..Len(q) : i # j => q[i] # q[j]

\* A registry hive: whether its key opens, and its subkeys in EnumKey order
\* (at most n of them; subkey names are unique under a key).
Hives(entries, n) ==
    {[open |-> FALSE, subkeys |-> <<>>]} \cup
    UNION {{[open |-> TRUE, subkeys |-> q] : q \in {r \in SeqsOfLen(entries, k) : NoRepeat(r)}}
           : k \in 0..n}

\* How much an environment holds beyond the fixed part.
WhereItems(w) == Cardinality({x \in DOMAIN w : w[x] # WhereFail})
VarItems(p, u) == (IF p = << <<>> >> THEN 0 ELSE 1) + (IF u = <<>> THEN 0 ELSE 1)
Items(e) ==
    Len(e.app_paths.subkeys) + Len(e.uninstall.subkeys) + Cardinality(e.files)
    + WhereItems(e.where) + VarItems(e.PATH, e.USERPROFILE)

\* The environments holding at most n items.
Envs(n) ==
    UNION { UNION { UNION { UNION {
        { [app_paths |-> h1, uninstall |-> h2, files |-> f, where |-> w,
           PATH |-> v.pv, USERPROFILE |-> v.up, known |-> TRUE] :
            v \in {x \in [pv : PathVars, up : {<<>>, UserProfile}] :
                     VarItems(x.pv, x.up) <= n - Len(h1.subkeys) - Len(h2.subkeys)
                                               - Cardinality(f) - WhereItems(w)} }
        : w \in {t \in WhereTables :
                   WhereItems(t) <= n - Len(h1.subkeys) - Len(h2.subkeys) - Cardinality(f)} }
        : f \in {g \in SUBSET VarFiles :
                   Cardinality(g) <= n - Len(h1.subkeys) - Len(h2.subkeys)} }
        : h2 \in Hives(UninstallEntries, n - Len(h1.subkeys)) }
        : h1 \in Hives(AppPathEntries, n) }

\* What the environment may have become when _discover_apps is called again
\* later: one thing for each strategy to find, the rest as in NoEnv.
LaterEnvs ==
    { e \in Envs(1) :
        /\ e.PATH = << <<>> >> /\ e.USERPROFILE = <<>>
        /\ e.app_paths.open /\ e.uninstall.open
        /\ \/ e.app_paths.subkeys = << [kind |-> "ok", subkey |-> a_exe, value |-> Target1] >>
           \/ e.uninstall.subkeys =
                  << [kind |-> "ok", display |-> <<"C">>, location |-> InstallDir] >>
           \/ e.files = {Join(program_files, a_exe)}
           \/ e.where[b_exe] = WhereOk(<< <<>>, Found2, Found1 >>) }

\* The value of `env` while no discovery runs and none has just ended.
NoEnv ==
    [app_paths |-> [open |-> FALSE, subkeys |-> <<>>],
     uninstall |-> [open |-> FALSE, subkeys |-> <<>>],
     files |-> {}, where |-> [x \in {a_exe, b_exe} |-> WhereFail],
     PATH |-> << <<>> >>, USERPROFILE |-> <<>>, known |-> FALSE]

\* ------------------------------------------------------------ file system

AllDirs(e) ==
    FixedDirs \cup ({SubSeq(f, 1, n) : f \in e.files, n \in 1..2} \ e.files)
AllPaths(e) == FixedFiles \cup e.files \cup AllDirs(e)

\* os.path.exists: Windows file names are case-insensitive; '' does not exist.
Exists(e, p) ==
    LET lp == LowerPath(p)
    IN  \E q \in AllPaths(e) : Len(q) = Len(p) /\ LowerPath(q) = lp
\* os.path.isdir
IsDir(e, p) ==
    LET lp == LowerPath(p)
    IN  \E q \in AllDirs(e) : Len(q) = Len(p) /\ LowerPath(q) = lp
\* os.listdir: the names below d, as stored, in the volume's order.
ListDir(e, d) ==
    LET ld == LowerPath(d)
        names == { q[Len(q)] : q \in { x \in AllPaths(e) :
                                          /\ Len(x) = Len(d) + 1
                                          /\ LowerPath(SubSeq(x, 1, Len(d))) = ld } }
    IN  SelectSeq(DirOrder, LAMBDA n : n \in names)

\* subprocess.run(["where", exe_name]) during discovery: where.exe matches
\* file names case-insensitively.
Where(e, exe_name) == e.where[Lower(exe_name)]

\* ------------------------------------------------------------ dictionaries

\* A Python dict is the sequence of its items in insertion order.
Has(d, k) == \E i \in 1..Len(d) : d[i].name = k
IndexOf(d, k) == CHOOSE i \in 1..Len(d) : d[i].name = k
Keys(d) == {d[i].name : i \in 1..Len(d)}
\* d[k]
PathOf(d, k) == d[IndexOf(d, k)].path
PatternOf(d, k) == d[IndexOf(d, k)].pattern
\* d[k] = v: a present key keeps its place, a new key goes last.
SetPath(d, k, v) ==
    IF Has(d, k) THEN [d EXCEPT ![IndexOf(d, k)].path = v]
    ELSE Append(d, [name |-> k, path |-> v])
SetPattern(d, k, v) ==
    IF Has(d, k) THEN [d EXCEPT ![IndexOf(d, k)].pattern = v]
    ELSE Append(d, [name |-> k, pattern |-> v])

\* The registry object while a method runs: app_registry, window_patterns, and
\* what the method did so far: its registry writes (with what the key held at
\* the write) and its external `where` calls (with what each did).
Store(reg, pats) == [reg |-> reg, pats |-> pats, writes |-> <<>>, probes |-> <<>>]

\* self.app_registry[name] = path, by strategy or method `by`.
WriteRegistry(st, by, name, path) ==
    [st EXCEPT !.reg = SetPath(st.reg, name, path),
               !.writes = Append(st.writes,
                   [by |-> by, name |-> name, path |-> path,
                    present |-> Has(st.reg, name),
                    old |-> IF Has(st.reg, name) THEN PathOf(st.reg, name) ELSE <<>>])]

\* self.window_patterns[name] = pattern, without the test for absence.
PatternAlways(st, name, pattern) ==
    [st EXCEPT !.pats = SetPattern(st.pats, name, pattern)]

\* if name not in self.window_patterns: self.window_patterns[name] = pattern
PatternIfAbsent(st, name, pattern) ==
    IF Has(st.pats, name) THEN st
    ELSE [st EXCEPT !.pats = SetPattern(st.pats, name, pattern)]

\* subprocess.run(["where", exe_name]) was called and did `result`.
Probe(st, exe_name, result) ==
    [st EXCEPT !.probes = Append(st.probes, [exe |-> exe_name, result |-> result])]

\* --------------------------------------------------------------- discovery

\* A _get_search_paths without the final filter.
get_search_paths_unfiltered(e) ==
    << system_root, Join(system_root, <<"s">>), Join(system_root, <<"y">>),
       program_files, program_files_x86 >>
    \o << Join(program_files, <<"e">>), Join(program_files_x86, <<"c">>) >>
    \o (IF e.USERPROFILE # <<>> THEN << Join(e.USERPROFILE, <<"l">>) >> ELSE <<>>)
    \o e.PATH

\* _get_search_paths: the system directories, the known install roots (cut to
\* Office16 and Chrome's Application), the user-profile directories (cut to
\* AppData\Local\Programs) when USERPROFILE is set, then the PATH entries;
\* the empty and the non-existent ones are filtered out.
_get_search_paths(e) ==
    LET paths ==
            << system_root, Join(system_root, <<"s">>), Join(system_root, <<"y">>),
               program_files, program_files_x86 >>
            \o << Join(program_files, <<"e">>), Join(program_files_x86, <<"c">>) >>
            \o (IF e.USERPROFILE # <<>> THEN << Join(e.USERPROFILE, <<"l">>) >> ELSE <<>>)
            \o e.PATH
    IN  SelectSeq(paths, LAMBDA q : q # <<>> /\ Exists(e, q))

\* An App Paths loop that stores every readable default value, whether or not
\* the file it names exists.
RECURSIVE AppPathsLoopUnchecked(_, _, _)
AppPathsLoopUnchecked(e, index, st) ==
    IF index > Len(e.app_paths.subkeys) THEN st
    ELSE LET sk == e.app_paths.subkeys[index]
             app_name == Lower(SplitextRoot(sk.subkey))
         IN  IF sk.kind # "ok" THEN st
             ELSE AppPathsLoopUnchecked(e, index + 1,
                      PatternIfAbsent(WriteRegistry(st, "app_paths", app_name, sk.value),
                                      app_name, Title(app_name)))

\* The loop of _discover_from_app_paths from subkey `index` on.  EnumKey past
\* the last subkey, OpenKey and QueryValueEx raise OSError, which ends the loop.
RECURSIVE AppPathsLoop(_, _, _)
AppPathsLoop(e, index, st) ==
    IF index > Len(e.app_paths.subkeys) THEN st
    ELSE LET sk == e.app_paths.subkeys[index]
             app_name == Lower(SplitextRoot(sk.subkey))
         IN  IF sk.kind # "ok" THEN st
             ELSE IF Exists(e, sk.value)
                  THEN AppPathsLoop(e, index + 1,
                           PatternIfAbsent(WriteRegistry(st, "app_paths", app_name, sk.value),
                                           app_name, Title(app_name)))
                  ELSE AppPathsLoop(e, index + 1, st)

\* An App Paths strategy that starts from an emptied registry.
discover_from_app_paths_resetting(e, st) ==
    IF e.app_paths.open THEN AppPathsLoop(e, 1, [st EXCEPT !.reg = <<>>])
    ELSE [st EXCEPT !.reg = <<>>]

_discover_from_app_paths(e, st) ==
    IF e.app_paths.open THEN AppPathsLoop(e, 1, st) ELSE st

\* The files of a listing whose lower-cased name ends in ".exe".
ExeFiles(listing) == SelectSeq(listing, LAMBDA file : EndsWith(Lower(file), dot_exe))

\* An Uninstall record handled with the last .exe of the listing in place of
\* the first.
UninstallRecordLastExe(e, sk, st) ==
    LET words == SplitWords(Lower(sk.display))
        app_name == words[1]
        exes == IF sk.location # <<>> /\ Exists(e, sk.location)
                THEN ExeFiles(ListDir(e, sk.location)) ELSE <<>>
        exe_path == Join(sk.location, exes[Len(exes)])
    IN  IF words = <<>> THEN st
        ELSE IF exes = <<>> THEN st
        ELSE IF Has(st.reg, app_name) THEN st
        ELSE PatternIfAbsent(WriteRegistry(st, "uninstall", app_name, exe_path),
                             app_name, sk.display)

\* One Uninstall record with both values: the first word of the display name,
\* the first .exe of the install location, inserted if the name is absent.
UninstallRecord(e, sk, st) ==
    LET words == SplitWords(Lower(sk.display))
        app_name == words[1]
        exes == IF sk.location # <<>> /\ Exists(e, sk.location)
                THEN ExeFiles(ListDir(e, sk.location)) ELSE <<>>
        exe_path == Join(sk.location, exes[1])
    IN  IF words = <<>> THEN st             \* IndexError, swallowed
        ELSE IF exes = <<>> THEN st
        ELSE IF Has(st.reg, app_name) THEN st
        ELSE PatternIfAbsent(WriteRegistry(st, "uninstall", app_name, exe_path),
                             app_name, sk.display)

\* The loop of _discover_from_uninstall_registry from subkey `index` on.
RECURSIVE UninstallLoop(_, _, _)
UninstallLoop(e, index, st) ==
    IF index > Len(e.uninstall.subkeys) THEN st
    ELSE LET sk == e.uninstall.subkeys[index]
         IN  IF sk.kind = "noopen" THEN st
             ELSE IF sk.kind = "novalue" THEN UninstallLoop(e, index + 1, st)
             ELSE UninstallLoop(e, index + 1, UninstallRecord(e, sk, st))

_discover_from_uninstall_registry(e, st) ==
    IF e.uninstall.open THEN UninstallLoop(e, 1, st) ELSE st

\* The subdirectories of search_path (in listing order) that hold exe_name.
SubdirHits(e, search_path, exe_name) ==
    SelectSeq(ListDir(e, search_path),
              LAMBDA subdir : /\ IsDir(e, Join(search_path, subdir))
                              /\ Exists(e, Join(Join(search_path, subdir), exe_name)))

\* The loop over exe_names for one search path, from candidate i on: a direct
\* hit is written and ends the loop; a hit in a subdirectory is written and
\* ends only the scan of the subdirectories.
RECURSIVE FilesystemExes(_, _, _, _, _)
FilesystemExes(e, search_path, app, i, st) ==
    IF i > Len(app.exes) THEN st
    ELSE LET exe_name == app.exes[i]
             hits == SubdirHits(e, search_path, exe_name)
         IN  IF Exists(e, Join(search_path, exe_name))
             THEN WriteRegistry(st, "filesystem", app.name, Join(search_path, exe_name))
             ELSE FilesystemExes(e, search_path, app, i + 1,
                      IF hits # <<>>
                      THEN WriteRegistry(st, "filesystem", app.name,
                                         Join(Join(search_path, hits[1]), exe_name))
                      ELSE st)

\* A loop over self.search_paths that goes on after a hit, so that a later
\* directory's hit replaces an earlier one's.
RECURSIVE FilesystemPathsNoBreak(_, _, _, _, _)
FilesystemPathsNoBreak(e, paths, app, i, st) ==
    IF i > Len(paths) THEN st
    ELSE FilesystemPathsNoBreak(e, paths, app, i + 1,
                                FilesystemExes(e, paths[i], app, 1, st))

\* The loop over self.search_paths for one application, from path i on.
RECURSIVE FilesystemPaths(_, _, _, _, _)
FilesystemPaths(e, paths, app, i, st) ==
    IF i > Len(paths) THEN st
    ELSE LET st2 == FilesystemExes(e, paths[i], app, 1, st)
         IN  IF Has(st2.reg, app.name) THEN st2
             ELSE FilesystemPaths(e, paths, app, i + 1, st2)

\* A loop over self.common_apps with the test turned round: it searches for
\* the applications the registry already has and skips the others.
RECURSIVE FilesystemAppsPresentOnly(_, _, _, _)
FilesystemAppsPresentOnly(e, paths, i, st) ==
    IF i > Len(common_apps) THEN st
    ELSE FilesystemAppsPresentOnly(e, paths, i + 1,
             IF ~Has(st.reg, common_apps[i].name) THEN st
             ELSE FilesystemPaths(e, paths, common_apps[i], 1, st))

\* The loop over self.common_apps, from row i on.
RECURSIVE FilesystemApps(_, _, _, _)
FilesystemApps(e, paths, i, st) ==
    IF i > Len(common_apps) THEN st
    ELSE FilesystemApps(e, paths, i + 1,
             IF Has(st.reg, common_apps[i].name) THEN st
             ELSE FilesystemPaths(e, paths, common_apps[i], 1, st))

\* A filesystem strategy that lacks the "skip if already found" test.
RECURSIVE FilesystemAppsNoSkip(_, _, _, _)
FilesystemAppsNoSkip(e, paths, i, st) ==
    IF i > Len(common_apps) THEN st
    ELSE FilesystemAppsNoSkip(e, paths, i + 1,
             FilesystemPaths(e, paths, common_apps[i], 1, st))
discover_from_filesystem_no_skip(e, paths, st) == FilesystemAppsNoSkip(e, paths, 1, st)

_discover_from_filesystem(e, paths, st) == FilesystemApps(e, paths, 1, st)

\* What the code does with a `where` that exited 0: the first line of the
\* stripped output is written; `if paths:` is the code's test.
FirstPath(lines) == SplitNewline(StripLines(lines))[1]
HasPaths(lines) == SplitNewline(StripLines(lines)) # <<>>

\* A loop over exe_names that goes on after a success: every candidate is
\* looked up, and a later success replaces an earlier one.
RECURSIVE WhereExesNoBreak(_, _, _, _)
WhereExesNoBreak(e, app, i, st) ==
    IF i > Len(app.exes) THEN st
    ELSE LET result == Where(e, app.exes[i])
             st2 == Probe(st, app.exes[i], result)
         IN  WhereExesNoBreak(e, app, i + 1,
                 IF result.kind = "ok" /\ HasPaths(result.lines)
                 THEN WriteRegistry(st2, "where", app.name, FirstPath(result.lines))
                 ELSE st2)

\* The loop over exe_names of _discover_from_where_command, from candidate i on.
RECURSIVE WhereExes(_, _, _, _)
WhereExes(e, app, i, st) ==
    IF i > Len(app.exes) THEN st
    ELSE LET result == Where(e, app.exes[i])
             st2 == Probe(st, app.exes[i], result)
         IN  IF result.kind = "ok" /\ HasPaths(result.lines)
             THEN WriteRegistry(st2, "where", app.name, FirstPath(result.lines))
             ELSE WhereExes(e, app, i + 1, st2)

RECURSIVE WhereApps(_, _, _)
WhereApps(e, i, st) ==
    IF i > Len(common_apps) THEN st
    ELSE WhereApps(e, i + 1,
             IF Has(st.reg, common_apps[i].name) THEN st
             ELSE WhereExes(e, common_apps[i], 1, st))

_discover_from_where_command(e, st) == WhereApps(e, 1, st)

\* ----------------------------------------------------------------- lookups

\* The partial match in one direction only: the keys that contain the name.
PartialMatchesContaining(d, app_name) ==
    SelectSeq(d, LAMBDA item : Contains(item.name, app_name))

\* The partial matches visited from the newest item to the oldest.
Reverse(q) == [i \in 1..Len(q) |-> q[Len(q) + 1 - i]]
PartialMatchesNewestFirst(d, app_name) ==
    Reverse(SelectSeq(d, LAMBDA item : Contains(item.name, app_name)
                                        \/ Contains(app_name, item.name)))

\* The items of the registry whose key contains name or is contained in it,
\* in the order `for name, path in self.app_registry.items()` visits them.
PartialMatches(d, app_name) ==
    SelectSeq(d, LAMBDA item : Contains(item.name, app_name) \/ Contains(app_name, item.name))

\* _find_app_on_demand(app_name), `result` being what `where <app_name>.exe`
\* does: an exception and a non-zero exit return None, an exit 0 caches and
\* returns the first path of the output.
\* An on-demand resolution that takes any `where` that ran for a success,
\* whatever its exit code.
find_app_on_demand_any_exit(st, app_name, result) ==
    LET st2 == Probe(st, app_name \o dot_exe, result)
    IN  IF result.kind # "raise" /\ HasPaths(result.lines)
        THEN [st |-> WriteRegistry(st2, "on_demand", app_name, FirstPath(result.lines)),
              found |-> TRUE, ret |-> FirstPath(result.lines)]
        ELSE [st |-> st2, found |-> FALSE, ret |-> <<>>]

\* An on-demand resolution that returns what it found and caches nothing.
find_app_on_demand_uncached(st, app_name, result) ==
    LET st2 == Probe(st, app_name \o dot_exe, result)
    IN  IF result.kind = "ok" /\ HasPaths(result.lines)
        THEN [st |-> st2, found |-> TRUE, ret |-> FirstPath(result.lines)]
        ELSE [st |-> st2, found |-> FALSE, ret |-> <<>>]

_find_app_on_demand(st, app_name, result) ==
    LET st2 == Probe(st, app_name \o dot_exe, result)
    IN  IF result.kind = "ok" /\ HasPaths(result.lines)
        THEN [st |-> WriteRegistry(st2, "on_demand", app_name, FirstPath(result.lines)),
              found |-> TRUE, ret |-> FirstPath(result.lines)]
        ELSE [st |-> st2, found |-> FALSE, ret |-> <<>>]

\* A get_app_path that compares the name as given, without lower-casing it.
get_app_path_as_given(st, name, result) ==
    LET partial == PartialMatches(st.reg, name)
    IN  IF Has(st.reg, name)
        THEN [st |-> st, found |-> TRUE, ret |-> PathOf(st.reg, name)]
        ELSE IF partial # <<>>
        THEN [st |-> st, found |-> TRUE, ret |-> partial[1].path]
        ELSE _find_app_on_demand(st, name, result)

\* A get_app_path without the exact-match test: the first key in the
\* substring relation with the name answers, the name itself or another.
get_app_path_partial_first(st, name, result) ==
    LET app_name == Lower(name)
        partial == PartialMatches(st.reg, app_name)
    IN  IF partial # <<>>
        THEN [st |-> st, found |-> TRUE, ret |-> partial[1].path]
        ELSE _find_app_on_demand(st, app_name, result)

\* get_app_path(name): exact match, then the first partial match, then the
\* on-demand probe.  found = FALSE is the return value None.
get_app_path(st, name, result) ==
    LET app_name == Lower(name)
        partial == PartialMatches(st.reg, app_name)
    IN  IF Has(st.reg, app_name)
        THEN [st |-> st, found |-> TRUE, ret |-> PathOf(st.reg, app_name)]
        ELSE IF partial # <<>>
        THEN [st |-> st, found |-> TRUE, ret |-> partial[1].path]
        ELSE _find_app_on_demand(st, app_name, result)

\* A get_window_pattern that stores its fallback in the pattern table.
get_window_pattern_caching(st, name) ==
    LET app_name == Lower(name)
        partial == PartialMatches(st.pats, app_name)
    IN  IF Has(st.pats, app_name)
        THEN [st |-> st, found |-> TRUE, ret |-> PatternOf(st.pats, app_name)]
        ELSE IF partial # <<>>
        THEN [st |-> st, found |-> TRUE, ret |-> partial[1].pattern]
        ELSE [st |-> [st EXCEPT !.pats = SetPattern(st.pats, app_name, Title(app_name))],
              found |-> TRUE, ret |-> Title(app_name)]

\* get_window_pattern(name): exact match, first partial match, title-cased name.
get_window_pattern(st, name) ==
    LET app_name == Lower(name)
        partial == PartialMatches(st.pats, app_name)
    IN  IF Has(st.pats, app_name)
        THEN [st |-> st, found |-> TRUE, ret |-> PatternOf(st.pats, app_name)]
        ELSE IF partial # <<>>
        THEN [st |-> st, found |-> TRUE, ret |-> partial[1].pattern]
        ELSE [st |-> st, found |-> TRUE, ret |-> Title(app_name)]

\* An add_app that keeps the path and the pattern of a name that is present.
add_app_if_absent(st, name, path, window_pattern) ==
    LET key == Lower(name)
    IN  [st |-> IF Has(st.reg, key) THEN st
                ELSE PatternIfAbsent(WriteRegistry(st, "add_app", key, path), key,
                         IF window_pattern # <<>> THEN window_pattern ELSE Title(key)),
         found |-> FALSE, ret |-> <<>>]

\* An add_app that stores the name as given, without lower-casing it.
add_app_as_given(st, name, path, window_pattern) ==
    LET st2 == WriteRegistry(st, "add_app", name, path)
    IN  [st |-> [st2 EXCEPT !.pats =
                    SetPattern(st2.pats, name,
                               IF window_pattern # <<>> THEN window_pattern ELSE Title(name))],
         found |-> FALSE, ret |-> <<>>]

\* add_app(name, path, window_pattern): window_pattern = '' stands for the
\* falsy values None and ''.
add_app(st, name, path, window_pattern) ==
    LET key == Lower(name)
        st2 == WriteRegistry(st, "add_app", key, path)
    IN  [st |-> [st2 EXCEPT !.pats =
                    SetPattern(st2.pats, key,
                               IF window_pattern # <<>> THEN window_pattern ELSE Title(key))],
         found |-> FALSE, ret |-> <<>>]

\* ------------------------------------------------------------------- state

VARIABLES
    env,              \* the environment the running (or just ended) discovery reads
    search_paths,     \* self.search_paths
    app_registry,     \* self.app_registry, items in insertion order
    window_patterns,  \* self.window_patterns, items in insertion order
    pc,               \* the strategy _discover_apps runs next, or "idle"
    last,             \* the last step: operation, argument, result, writes, probes
    run,              \* the discovery run: its writes so far, the registry before it
    calls             \* registry-changing calls made after construction

vars == <<env, search_paths, app_registry, window_patterns, pc, last, run, calls>>

\* Names callers ask for, and the arguments of add_app.
QueryNames == { <<>>, <<"A">>, <<"a", "B">>, <<"C">> }
Override == Join(UserProfile, w_exe)
AddArgs ==
    { [name |-> <<"A">>, path |-> Override, window_pattern |-> <<>>],
      [name |-> <<"a", "B">>, path |-> Override, window_pattern |-> <<"W">>],
      [name |-> <<"C">>, path |-> <<>>, window_pattern |-> <<"W">>],
      [name |-> <<>>, path |-> Override, window_pattern |-> <<>>] }

NoStep == [op |-> "none", arg |-> <<>>, found |-> FALSE, ret |-> <<>>,
           writes |-> <<>>, probes |-> <<>>]
Step(op, arg, r) ==
    [op |-> op, arg |-> arg, found |-> r.found, ret |-> r.ret,
     writes |-> r.st.writes, probes |-> r.st.probes]
\* `again`: the run re-ran _discover_apps on the environment and the registry
\* the run before it left.
NoRun == [writes |-> <<>>, again |-> FALSE, before |-> <<>>]

\* AppRegistry(): the tables, the search paths; _discover_apps runs next.
Init ==
    /\ env \in Envs(MaxItems)
    /\ search_paths = _get_search_paths(env)
    /\ app_registry = <<>>
    /\ window_patterns = InitialWindowPatterns
    /\ pc = "app_paths"
    /\ last = NoStep
    /\ run = NoRun
    /\ calls = 0

\* A _discover_apps that a strategy's failure ends: when the hive of a
\* registry strategy does not open, no later strategy runs.
StrategyAborting(name, after, next) ==
    /\ pc = name
    /\ app_registry' = after.reg
    /\ window_patterns' = after.pats
    /\ last' = Step(name, <<>>, [st |-> after, found |-> FALSE, ret |-> <<>>])
    /\ run' = [run EXCEPT !.writes = run.writes \o after.writes]
    /\ pc' = IF \/ name = "app_paths" /\ ~env.app_paths.open
                \/ name = "uninstall" /\ ~env.uninstall.open
             THEN "idle" ELSE next
    /\ UNCHANGED <<env, search_paths, calls>>

\* One strategy of _discover_apps: `after` is the store it leaves.
Strategy(name, after, next) ==
    /\ pc = name
    /\ app_registry' = after.reg
    /\ window_patterns' = after.pats
    /\ last' = Step(name, <<>>, [st |-> after, found |-> FALSE, ret |-> <<>>])
    /\ run' = [run EXCEPT !.writes = run.writes \o after.writes]
    /\ pc' = next
    /\ UNCHANGED <<env, search_paths, calls>>

\* A _discover_apps whose first call is the where strategy.
DiscoverFromWhereCommandFirst ==
    Strategy("app_paths",
             _discover_from_where_command(env, Store(app_registry, window_patterns)),
             "uninstall")

DiscoverFromAppPaths ==
    Strategy("app_paths",
             _discover_from_app_paths(env, Store(app_registry, window_patterns)),
             "uninstall")

DiscoverFromUninstallRegistry ==
    Strategy("uninstall",
             _discover_from_uninstall_registry(env, Store(app_registry, window_patterns)),
             "filesystem")

DiscoverFromFilesystem ==
    Strategy("filesystem",
             _discover_from_filesystem(env, search_paths, Store(app_registry, window_patterns)),
             "where")

DiscoverFromWhereCommand ==
    Strategy("where",
             _discover_from_where_command(env, Store(app_registry, window_patterns)),
             "idle")

\* The last step was a lookup that wrote nothing.  It left the object as it
\* found it, so whatever can be called after it could be called in its place:
\* the steps below are taken from the state before it only.
ReadOnlyLookup ==
    last.op \in {"get_app_path", "get_window_pattern"} /\ last.writes = <<>>

\* _discover_apps() called a second time right after a run, the environment
\* unchanged.
DiscoverAgain ==
    /\ pc = "idle" /\ env.known /\ ~run.again
    /\ pc' = "app_paths"
    /\ run' = [writes |-> <<>>, again |-> TRUE, before |-> app_registry]
    /\ last' = NoStep
    /\ UNCHANGED <<env, search_paths, app_registry, window_patterns, calls>>

\* _discover_apps() called later, on whatever the environment has become.
DiscoverLater ==
    /\ pc = "idle" /\ ~ReadOnlyLookup /\ calls < MaxCalls
    /\ env' \in LaterEnvs
    /\ pc' = "app_paths"
    /\ run' = NoRun
    /\ last' = NoStep
    /\ calls' = calls + 1
    /\ UNCHANGED <<search_paths, app_registry, window_patterns>>

\* A call of a public method: r is its result and the store it leaves.
Call(op, arg, r) ==
    /\ pc = "idle" /\ ~ReadOnlyLookup
    /\ r.st.writes # <<>> => calls < MaxCalls
    /\ app_registry' = r.st.reg
    /\ window_patterns' = r.st.pats
    /\ last' = Step(op, arg, r)
    /\ calls' = IF r.st.writes # <<>> THEN calls + 1 ELSE calls
    /\ env' = NoEnv
    /\ run' = NoRun
    /\ UNCHANGED <<search_paths, pc>>

\* Whether get_app_path(name) gets as far as the external probe.
Probes(d, name) == ~Has(d, Lower(name)) /\ PartialMatches(d, Lower(name)) = <<>>

GetAppPath ==
    \E name \in QueryNames :
        \E result \in IF Probes(app_registry, name) THEN WhereOutcomes ELSE {WhereFail} :
            Call("get_app_path", name,
                 get_app_path(Store(app_registry, window_patterns), name, result))

GetWindowPattern ==
    \E name \in QueryNames :
        Call("get_window_pattern", name,
             get_window_pattern(Store(app_registry, window_patterns), name))

AddApp ==
    \E x \in AddArgs :
        Call("add_app", x.name,
             add_app(Store(app_registry, window_patterns), x.name, x.path, x.window_pattern))

Next ==
    \/ DiscoverFromAppPaths
    \/ DiscoverFromUninstallRegistry
    \/ DiscoverFromFilesystem
    \/ DiscoverFromWhereCommand
    \/ DiscoverAgain
    \/ DiscoverLater
    \/ GetAppPath
    \/ GetWindowPattern
    \/ AddApp

Spec == Init /\ [][Next]_vars

\* ---------------------------------------------- two callers on one object
\* get_app_path is not atomic: between the tests of lines 285-291 and the
\* write of line 322 it waits for the `where` process, and the object has no
\* lock, so a second thread's method can run in between.

\* get_app_path(name) found no exact and no partial match, and has called
\* subprocess.run in _find_app_on_demand.
BeginOnDemand ==
    /\ pc = "idle" /\ ~ReadOnlyLookup /\ calls < MaxCalls
    /\ \E name \in QueryNames :
           /\ Probes(app_registry, name)
           /\ last' = [NoStep EXCEPT !.op = "probing", !.arg = name]
    /\ pc' = "probing"
    /\ calls' = calls + 1
    /\ env' = NoEnv
    /\ run' = NoRun
    /\ UNCHANGED <<search_paths, app_registry, window_patterns>>

\* While the first caller waits, a second caller's add_app of the same name
\* runs; its write is kept in `last`.
ConcurrentAddApp ==
    /\ pc = "probing" /\ last.writes = <<>>
    /\ \E x \in AddArgs :
           /\ Lower(x.name) = Lower(last.arg)
           /\ LET r == add_app(Store(app_registry, window_patterns),
                               x.name, x.path, x.window_pattern)
              IN  /\ app_registry' = r.st.reg
                  /\ window_patterns' = r.st.pats
                  /\ last' = [last EXCEPT !.writes = r.st.writes]
    /\ UNCHANGED <<env, search_paths, pc, run, calls>>

\* `where` ends, and _find_app_on_demand goes on from line 317.
EndOnDemand ==
    /\ pc = "probing"
    /\ \E result \in WhereOutcomes :
           LET r == _find_app_on_demand(Store(app_registry, window_patterns),
                                        Lower(last.arg), result)
           IN  /\ app_registry' = r.st.reg
               /\ window_patterns' = r.st.pats
               /\ last' = [Step("get_app_path", last.arg, r)
                              EXCEPT !.writes = last.writes \o r.st.writes]
    /\ pc' = "idle"
    /\ UNCHANGED <<env, search_paths, run, calls>>

NextConcurrent ==
    \/ Next
    \/ BeginOnDemand
    \/ ConcurrentAddApp
    \/ EndOnDemand

SpecConcurrent == Init /\ [][NextConcurrent]_vars

\* ------------------------------------------------- the registry's caller
\* ActionExecutor holds one AppRegistry and calls it from _open_application
\* and _close_application.  `op` is the registry method the call reached, or
\* the executor's own method when it answered without the registry.

\* An _open_application without the test for an empty name.
open_application_unguarded(st, app_name, result) ==
    [op |-> "get_app_path", r |-> get_app_path(st, app_name, result)]

\* _open_application(app_name) up to the registry call: `if not app_name`
\* answers at once, else self.app_registry.get_app_path(app_name).
_open_application(st, app_name, result) ==
    IF app_name = <<>>
    THEN [op |-> "_open_application", r |-> [st |-> st, found |-> FALSE, ret |-> <<>>]]
    ELSE [op |-> "get_app_path", r |-> get_app_path(st, app_name, result)]

\* _close_application(app_name) up to the registry call.
_close_application(st, app_name) ==
    IF app_name = <<>>
    THEN [op |-> "_close_application", r |-> [st |-> st, found |-> FALSE, ret |-> <<>>]]
    ELSE [op |-> "get_window_pattern", r |-> get_window_pattern(st, app_name)]

OpenApplication ==
    \E name \in QueryNames :
        \E result \in IF Probes(app_registry, name) THEN WhereOutcomes ELSE {WhereFail} :
            LET x == _open_application(Store(app_registry, window_patterns), name, result)
            IN  Call(x.op, name, x.r)

CloseApplication ==
    \E name \in QueryNames :
        LET x == _close_application(Store(app_registry, window_patterns), name)
        IN  Call(x.op, name, x.r)

NextExecutor ==
    \/ Next
    \/ OpenApplication
    \/ CloseApplication

SpecExecutor == Init /\ [][NextExecutor]_vars

\* ------------------------------------------------------------------ claims

\* A run of _discover_apps has just ended.
DiscoverDone == pc = "idle" /\ env.known

\* C1: priority invariant of discover().  When a run of _discover_apps has
\* ended, every name the App Paths strategy wrote in that run holds the path
\* of that strategy's last write for it, whatever the uninstall, filesystem
\* and where strategies found for the name.
C1_PriorityInvariant ==
    DiscoverDone =>
        \A i \in 1..Len(run.writes) :
            LET w == run.writes[i]
            IN  (/\ w.by = "app_paths"
                 /\ \A j \in (i + 1)..Len(run.writes) :
                        ~(run.writes[j].by = "app_paths" /\ run.writes[j].name = w.name))
                => /\ Has(app_registry, w.name)
                   /\ PathOf(app_registry, w.name) = w.path

\* C1's case: App Paths produced "a" and the filesystem holds a.exe in the
\* first search directory's subdirectory as well.
C1_Witness ==
    /\ DiscoverDone
    /\ \E i \in 1..Len(run.writes) :
           run.writes[i].by = "app_paths" /\ run.writes[i].name = <<"a">>
    /\ Join(Join(system_root, <<"s">>), a_exe) \in env.files

\* C2: every registry write of a discovery strategy or of on-demand
\* resolution is insert-if-absent: a write to a name that is present leaves
\* its path as it was; only add_app may change the path of a present name.
C2_InsertIfAbsent ==
    \A i \in 1..Len(last.writes) :
        LET w == last.writes[i]
        IN  (w.by # "add_app" /\ w.present) => w.path = w.old

\* C3: every name in the registry has a non-empty executable path and a
\* non-empty window pattern.
C3_NonEmptyEntries ==
    \A i \in 1..Len(app_registry) :
        /\ app_registry[i].path # <<>>
        /\ get_window_pattern(Store(app_registry, window_patterns),
                              app_registry[i].name).ret # <<>>

\* C4: the registry is additive-only: no step of any operation removes a key.
C4_AdditiveOnly == [][Keys(app_registry) \subseteq Keys(app_registry')]_vars

\* C4's case: _discover_apps ran again on a registry of several names, and
\* every name is still there.
C4_Witness ==
    /\ DiscoverDone /\ run.again
    /\ Len(run.before) >= 2
    /\ Keys(run.before) \subseteq Keys(app_registry)

\* The path a successful `where` reports first: the first line of its output
\* that is not blank, the empty path when it printed nothing.
FirstReported(lines) ==
    IF \E i \in 1..Len(lines) : lines[i] # <<>>
    THEN lines[CHOOSE i \in 1..Len(lines) :
                   lines[i] # <<>> /\ \A j \in 1..(i - 1) : lines[j] = <<>>]
    ELSE <<>>

\* C5: on-demand caching.  A get_app_path(n) that went to the external probe
\* and whose probe succeeded with path p returns p and leaves p under the
\* lower-cased n, so that get_app_path(n) on the registry it leaves returns p
\* with no external call, whatever `where` would answer now; and no lookup
\* (get_app_path, get_window_pattern) ever changes or moves an item the
\* registry already holds, so the cached path stays until add_app or a
\* discovery run writes the name.
C5_OnDemandCaching ==
    [][/\ (/\ last'.op = "get_app_path"
           /\ last'.probes # <<>>
           /\ last'.probes[1].result.kind = "ok")
          => LET n == last'.arg
                 p == FirstReported(last'.probes[1].result.lines)
             IN  /\ last'.found /\ last'.ret = p
                 /\ Has(app_registry', Lower(n))
                 /\ PathOf(app_registry', Lower(n)) = p
                 /\ \A r \in WhereOutcomes :
                        LET later == get_app_path(Store(app_registry', window_patterns'), n, r)
                        IN  later.found /\ later.ret = p /\ later.st.probes = <<>>
       /\ last'.op \in {"get_app_path", "get_window_pattern"}
          => /\ Len(app_registry') >= Len(app_registry)
             /\ \A i \in 1..Len(app_registry) : app_registry'[i] = app_registry[i]
      ]_vars

\* C5's case: get_app_path("C") answered from the registry, with no external
\* call, the path an earlier get_app_path cached under "c" from `where c.exe`.
C5_Witness ==
    /\ last.op = "get_app_path" /\ last.arg = <<"C">>
    /\ last.probes = <<>>
    /\ last.found /\ last.ret = Found2
    /\ Has(app_registry, <<"c">>) /\ PathOf(app_registry, <<"c">>) = Found2


\* Some registry key equals q, contains q or is contained in q, letter case
\* aside.
SomeKeyMatches(d, q) ==
    \E i \in 1..Len(d) :
        \/ Contains(Lower(d[i].name), Lower(q))
        \/ Contains(Lower(q), Lower(d[i].name))

\* C6: a get_app_path(n) that no registry key matches, exactly or partially,
\* and whose external probe fails (non-zero exit, or the command raising)
\* returns None, and leaves the registry and the window-pattern table as
\* they were.
C6_FailedProbe ==
    [][(/\ last'.op = "get_app_path"
        /\ ~SomeKeyMatches(app_registry, last'.arg)
        /\ \A i \in 1..Len(last'.probes) :
               last'.probes[i].result.kind \in {"fail", "raise"})
       => /\ ~last'.found
          /\ app_registry' = app_registry
          /\ window_patterns' = window_patterns
      ]_vars

\* C6's case: get_app_path("C") found no key, ran `where c.exe`, which
\* raised, and returned None.
C6_Witness ==
    /\ last.op = "get_app_path" /\ last.arg = <<"C">>
    /\ Len(last.probes) = 1
    /\ last.probes[1].exe = c_exe
    /\ last.probes[1].result.kind = "raise"
    /\ ~last.found
    /\ ~SomeKeyMatches(app_registry, <<"C">>)

\* A name as given, in lower case and in upper case.
CaseVariants(n) == { n, Lower(n), [i \in 1..Len(n) |-> UpperChar(n[i])] }

\* What the external probe can answer, one answer of each kind.
ProbeAnswers == { WhereFail, WhereRaise, WhereOk(<<Found2, Found1>>) }

\* C7: lookup is case-insensitive.  Whatever a get_app_path step returned
\* for its query, get_app_path on the same registry returns for every query
\* string that differs from it in letter case only (the same path, or None
\* for both), whatever the external probe answers; and whatever a
\* get_window_pattern step returned, get_window_pattern returns for every
\* such string.
C7_CaseInsensitive ==
    [][/\ last'.op = "get_app_path" =>
              LET st == Store(app_registry, window_patterns)
              IN  \A r \in ProbeAnswers :
                      LET r1 == get_app_path(st, last'.arg, r)
                      IN  \A q \in CaseVariants(last'.arg) \ {last'.arg} :
                              LET r2 == get_app_path(st, q, r)
                              IN  r1.found = r2.found /\ r1.ret = r2.ret
       /\ last'.op = "get_window_pattern" =>
              \A q \in CaseVariants(last'.arg) :
                  get_window_pattern(Store(app_registry, window_patterns), q).ret = last'.ret
      ]_vars

\* C7's case: get_app_path("A") returned the path the registry holds under
\* "a", and get_window_pattern("A") is the pattern of "a".
C7_Witness ==
    /\ last.op = "get_app_path" /\ last.arg = <<"A">>
    /\ Has(app_registry, <<"a">>)
    /\ last.found /\ last.ret = PathOf(app_registry, <<"a">>)
    /\ last.ret # <<>>
    /\ get_window_pattern(Store(app_registry, window_patterns), <<"A">>).ret
           = PatternOf(window_patterns, <<"a">>)

\* C8: partial-match containment.  Every get_app_path step: when some key of
\* the registry it starts from contains the query or is contained in it,
\* letter case aside, it returns the path of such a key without an external
\* call; when no key does and the on-demand probe fails, it returns None.
C8_PartialMatch ==
    [][last'.op = "get_app_path" =>
           IF SomeKeyMatches(app_registry, last'.arg)
           THEN /\ last'.found
                /\ last'.probes = <<>>
                /\ \E i \in 1..Len(app_registry) :
                       /\ last'.ret = app_registry[i].path
                       /\ \/ Contains(Lower(app_registry[i].name), Lower(last'.arg))
                          \/ Contains(Lower(last'.arg), Lower(app_registry[i].name))
           ELSE (\A k \in 1..Len(last'.probes) :
                     last'.probes[k].result.kind \in {"fail", "raise"})
                => ~last'.found
      ]_vars

\* C8's case, one direction: get_app_path("aB") found the path of a key
\* contained in "ab" while the registry has no key "ab".
C8_Witness ==
    /\ last.op = "get_app_path" /\ last.arg = <<"a", "B">>
    /\ ~Has(app_registry, <<"a", "b">>)
    /\ last.found /\ last.probes = <<>>
    /\ \E i \in 1..Len(app_registry) :
           /\ app_registry[i].name \in {<<"a">>, <<"b">>}
           /\ last.ret = app_registry[i].path

\* The other direction: get_app_path("A") found the path of the key "ab",
\* which contains "a", while the registry has no key "a".
C8_WitnessContained ==
    /\ last.op = "get_app_path" /\ last.arg = <<"A">>
    /\ ~Has(app_registry, <<"a">>)
    /\ Has(app_registry, <<"a", "b">>)
    /\ last.found /\ last.probes = <<>>
    /\ last.ret = PathOf(app_registry, <<"a", "b">>)

\* C9: idempotence of _discover_apps.  When _discover_apps has run again on
\* the environment of the run before it, unchanged, the registry has the keys
\* it had before the second run, each with the path it had.
C9_Idempotent ==
    (DiscoverDone /\ run.again) =>
        /\ Keys(app_registry) = Keys(run.before)
        /\ \A k \in Keys(run.before) : PathOf(app_registry, k) = PathOf(run.before, k)

\* C9's case: the second run wrote a name the registry had (App Paths writes
\* again what it finds), and the registry also has a name the second run
\* did not write, the later strategies skipping what is present.
C9_Witness ==
    /\ DiscoverDone /\ run.again
    /\ \E i \in 1..Len(run.writes) : run.writes[i].present
    /\ \E k \in Keys(app_registry) :
           \A i \in 1..Len(run.writes) : run.writes[i].name # k

\* File f lies in directory d or in a subdirectory of d, one level down.
LiesUnder(d, f) ==
    /\ Len(f) \in {Len(d) + 1, Len(d) + 2}
    /\ LowerPath(SubSeq(f, 1, Len(d))) = LowerPath(d)

\* The search directories, by position, that hold a candidate executable of
\* row `app` of common_apps, directly or one level down.
HoldingDirs(app) ==
    { i \in 1..Len(search_paths) :
        \E f \in env.files :
            /\ LiesUnder(search_paths[i], f)
            /\ \E j \in 1..Len(app.exes) : Lower(f[Len(f)]) = Lower(app.exes[j]) }

AppPathsRecordGood(i) ==
    LET sk == env.app_paths.subkeys[i]
    IN  sk.kind = "ok" /\ Exists(env, sk.value)

\* Record i of the Uninstall hive has both values, a display name with a
\* first word, and an install location that holds an executable.
UninstallRecordGood(i) ==
    LET sk == env.uninstall.subkeys[i]
    IN  /\ sk.kind = "ok"
        /\ SplitWords(Lower(sk.display)) # <<>>
        /\ sk.location # <<>> /\ Exists(env, sk.location)
        /\ ExeFiles(ListDir(env, sk.location)) # <<>>

\* C11: a failure at one record does not abort the rest of its strategy.
\* When the App Paths strategy has run on a hive that opens, every subkey
\* that can be read and names an existing file was written, also when it comes
\* after a subkey that cannot be read; when the uninstall strategy has run,
\* the first word of every complete record with an executable is a registry
\* name, also when the record comes after one that cannot be opened; when the
\* where strategy has run, every well-known application one of whose
\* candidates `where` finds is a registry name, also when `where` raised for
\* an earlier candidate.
C11_RecordFailureTolerated ==
    /\ (last.op = "app_paths" /\ env.app_paths.open) =>
           \A i \in 1..Len(env.app_paths.subkeys) :
               AppPathsRecordGood(i) =>
                   \E j \in 1..Len(last.writes) :
                       /\ last.writes[j].name
                              = Lower(SplitextRoot(env.app_paths.subkeys[i].subkey))
                       /\ last.writes[j].path = env.app_paths.subkeys[i].value
    /\ (last.op = "uninstall" /\ env.uninstall.open) =>
           \A i \in 1..Len(env.uninstall.subkeys) :
               UninstallRecordGood(i) =>
                   Has(app_registry,
                       SplitWords(Lower(env.uninstall.subkeys[i].display))[1])
    /\ (last.op = "where" /\ env.known) =>
           \A a \in 1..Len(common_apps) :
               (\E j \in 1..Len(common_apps[a].exes) :
                    Where(env, common_apps[a].exes[j]).kind = "ok")
               => Has(app_registry, common_apps[a].name)

\* What the first run of _discover_apps leaves when a strategy whose hive does
\* not open is left out and the others run in order.
AfterFirstRun ==
    LET s0 == Store(<<>>, InitialWindowPatterns)
        s1 == IF env.app_paths.open THEN _discover_from_app_paths(env, s0) ELSE s0
        s2 == IF env.uninstall.open
              THEN _discover_from_uninstall_registry(env, Store(s1.reg, s1.pats)) ELSE s1
        s3 == _discover_from_filesystem(env, search_paths, Store(s2.reg, s2.pats))
    IN  _discover_from_where_command(env, Store(s3.reg, s3.pats))

\* There is no `where` command: every call of it raises.
WhereMissing == \A x \in DOMAIN env.where : env.where[x].kind = "raise"

\* C12: the failure of a whole strategy is swallowed.  A registry strategy
\* whose hive does not open writes nothing and the next strategy is run; a
\* where strategy without a `where` command writes nothing and _discover_apps
\* returns; and when the first run of _discover_apps has ended with a hive
\* that did not open, the registry and the pattern table are what the other
\* strategies, run in order, produce.
C12_StrategyFailureTolerated ==
    /\ (last.op = "app_paths" /\ ~env.app_paths.open) =>
           last.writes = <<>> /\ pc = "uninstall"
    /\ (last.op = "uninstall" /\ ~env.uninstall.open) =>
           last.writes = <<>> /\ pc = "filesystem"
    /\ (last.op = "where" /\ env.known /\ WhereMissing) =>
           last.writes = <<>> /\ pc = "idle"
    /\ (/\ DiscoverDone /\ ~run.again /\ calls = 0
        /\ ~env.app_paths.open \/ ~env.uninstall.open) =>
           /\ app_registry = AfterFirstRun.reg
           /\ window_patterns = AfterFirstRun.pats

\* C12's case: neither hive opened, and the run ended with a name that the
\* filesystem or the where strategy found.
C12_Witness ==
    /\ DiscoverDone /\ ~run.again /\ calls = 0
    /\ ~env.app_paths.open /\ ~env.uninstall.open
    /\ \E i \in 1..Len(run.writes) : run.writes[i].by \in {"filesystem", "where"}

\* The other case: `where` is missing, the strategy called it for every
\* candidate of every application, and _discover_apps returned.
C12_WitnessWhere ==
    /\ last.op = "where" /\ env.known /\ WhereMissing
    /\ pc = "idle" /\ Len(last.probes) = 3

\* C13: add_app is an unconditional upsert.  On the registry add_app(n, p, w)
\* leaves, get_app_path of n in any letter case returns p with no external
\* call, whatever the registry held before, and get_window_pattern of n
\* returns w, or the title-cased n when w is omitted; and a lookup step
\* (get_app_path with its on-demand resolution, get_window_pattern) leaves the
\* answer for every name the registry holds, and the pattern table, as they
\* were, so that the override stays until the next add_app.
C13_AddAppUpsert ==
    [][/\ last'.op = "add_app" =>
              \A x \in AddArgs : x.name = last'.arg =>
                  \A q \in CaseVariants(x.name) :
                      LET st == Store(app_registry', window_patterns')
                      IN  /\ \A r \in ProbeAnswers :
                                 LET res == get_app_path(st, q, r)
                                 IN  res.found /\ res.ret = x.path /\ res.st.probes = <<>>
                          /\ get_window_pattern(st, q).ret =
                                 IF x.window_pattern # <<>> THEN x.window_pattern
                                 ELSE Title(x.name)
       /\ last'.op \in {"get_app_path", "get_window_pattern"} =>
              /\ window_patterns' = window_patterns
              /\ \A k \in Keys(app_registry) : \A r \in ProbeAnswers :
                     LET res == get_app_path(Store(app_registry', window_patterns'), k, r)
                     IN  res.found /\ res.ret = PathOf(app_registry, k)
      ]_vars

\* C13's case: add_app("A", ...) replaced the path discovery had stored under
\* "a" and the pattern "G A" of the table.
C13_Witness ==
    /\ last.op = "add_app" /\ last.arg = <<"A">>
    /\ last.writes[1].present /\ last.writes[1].old # Override
    /\ PathOf(app_registry, <<"a">>) = Override
    /\ PatternOf(window_patterns, <<"a">>) = <<"A">>

\* The later lookup: get_app_path("A") returned the override.
C13_WitnessLater ==
    /\ last.op = "get_app_path" /\ last.arg = <<"A">>
    /\ last.found /\ last.ret = Override
    /\ PatternOf(window_patterns, <<"a">>) = <<"A">>

\* C14: on-demand resolution under interleaving.  When a get_app_path(n) has
\* returned and another caller's add_app wrote n between the lookup's miss
\* and the write of its on-demand result, the on-demand write found the name
\* present and left the path add_app had stored.
C14_ConcurrentInsertPreserved ==
    (/\ last.op = "get_app_path"
     /\ \E i \in 1..Len(last.writes) : last.writes[i].by = "add_app") =>
        \A j \in 1..Len(last.writes) :
            LET w == last.writes[j]
            IN  (w.by = "on_demand" /\ w.present) =>
                    /\ w.path = w.old
                    /\ PathOf(app_registry, w.name) = w.old

\* C15: self.search_paths, the sequence _get_search_paths returned, holds no
\* directory twice, also when PATH names a system directory or names a
\* directory several times.
C15_NoDuplicateSearchPaths ==
    \A i, j \in 1..Len(search_paths) :
        i # j => search_paths[i] # search_paths[j]

\* The key of table d whose value a lookup of q returns: the lower-cased q
\* when it is a key, else the first key in the substring relation with it.
PathKey(q) ==
    IF Has(app_registry, Lower(q)) THEN Lower(q)
    ELSE PartialMatches(app_registry, Lower(q))[1].name
PatternKey(q) ==
    IF Has(window_patterns, Lower(q)) THEN Lower(q)
    ELSE PartialMatches(window_patterns, Lower(q))[1].name

\* C16: path and pattern of one query describe one application.  For every
\* non-empty query that get_app_path answers from a registry key and
\* get_window_pattern answers from a pattern key (not by its title-case
\* fallback), the two keys are the same.
C16_SameApplication ==
    pc = "idle" =>
        \A q \in QueryNames \ {<<>>} :
            (/\ ~Probes(app_registry, q)
             /\ \/ Has(window_patterns, Lower(q))
                \/ PartialMatches(window_patterns, Lower(q)) # <<>>)
            => PathKey(q) = PatternKey(q)

\* C17: lookup order.  Every get_app_path step, whatever the external probe
\* would answer: when the lower-cased query is a key of the registry the step
\* starts from, it returns that key's path and makes no external call,
\* whatever other keys, inserted earlier, contain it or are contained in it;
\* when it is no key but some key is in the substring relation with it, it
\* returns such a key's path and makes no external call; only when no key
\* matches at all is `where <query>.exe` called, once.
C17_LookupOrder ==
    [][last'.op = "get_app_path" =>
           LET q == Lower(last'.arg)
               exact == \E i \in 1..Len(app_registry) : app_registry[i].name = q
           IN  /\ exact =>
                      /\ last'.found /\ last'.probes = <<>>
                      /\ \E i \in 1..Len(app_registry) :
                             /\ app_registry[i].name = q
                             /\ last'.ret = app_registry[i].path
               /\ (~exact /\ SomeKeyMatches(app_registry, q)) =>
                      /\ last'.found /\ last'.probes = <<>>
                      /\ \E i \in 1..Len(app_registry) :
                             /\ last'.ret = app_registry[i].path
                             /\ \/ Contains(app_registry[i].name, q)
                                \/ Contains(q, app_registry[i].name)
               /\ ~SomeKeyMatches(app_registry, q) =>
                      /\ Len(last'.probes) = 1
                      /\ last'.probes[1].exe = q \o dot_exe
      ]_vars

\* C17's case: get_app_path("aB") returned the path of the key "ab" although
\* the key "a" or "b", inserted before it and contained in the query, holds
\* another path.
C17_Witness ==
    /\ last.op = "get_app_path" /\ last.arg = <<"a", "B">>
    /\ Has(app_registry, <<"a", "b">>)
    /\ last.found /\ last.ret = PathOf(app_registry, <<"a", "b">>)
    /\ \E i \in 1..(IndexOf(app_registry, <<"a", "b">>) - 1) :
           /\ Contains(<<"a", "b">>, app_registry[i].name)
           /\ app_registry[i].path # last.ret

\* C18: filesystem probing stops at the first hit for a name.  When the
\* filesystem strategy has run, it has written each name at most once (after
\* a hit no further candidate file name and no further directory yields a
\* write), and the registry holds the path of that first write.
C18_FirstHitStops ==
    (last.op = "filesystem" /\ env.known) =>
        \A i \in 1..Len(last.writes) :
            /\ \A j \in (i + 1)..Len(last.writes) :
                   last.writes[j].name # last.writes[i].name
            /\ ~last.writes[i].present
            /\ PathOf(app_registry, last.writes[i].name) = last.writes[i].path

\* C19: partial-match tie-break.  Every step keeps the registry's keys in the
\* order of their first insertion (a new key goes behind all present keys, a
\* write to a present key leaves it in its place); and every get_app_path
\* step whose query is no key of the registry it starts from but is in the
\* substring relation with several keys returns, with no external call, the
\* path of the one of them that was inserted first.
C19_TieBreak ==
    [][/\ Len(app_registry') >= Len(app_registry)
       /\ \A i \in 1..Len(app_registry) : app_registry'[i].name = app_registry[i].name
       /\ last'.op = "get_app_path" =>
              LET q == Lower(last'.arg)
                  matching == { i \in 1..Len(app_registry) :
                                  \/ Contains(app_registry[i].name, q)
                                  \/ Contains(q, app_registry[i].name) }
                  first == CHOOSE i \in matching : \A j \in matching : i <= j
              IN  (/\ Cardinality(matching) >= 2
                   /\ \A i \in matching : app_registry[i].name # q)
                  => /\ last'.found /\ last'.probes = <<>>
                     /\ last'.ret = app_registry[first].path
      ]_vars

\* C19's case: discovery inserted "b", a later on-demand resolution inserted
\* "a", and get_app_path("aB"), which both keys match, returned the path of
\* "b", which differs from that of "a".
C19_Witness ==
    /\ last.op = "get_app_path" /\ last.arg = <<"a", "B">>
    /\ ~Has(app_registry, <<"a", "b">>)
    /\ Has(app_registry, <<"a">>) /\ Has(app_registry, <<"b">>)
    /\ IndexOf(app_registry, <<"b">>) < IndexOf(app_registry, <<"a">>)
    /\ PathOf(app_registry, <<"a">>) # PathOf(app_registry, <<"b">>)
    /\ last.found /\ last.ret = PathOf(app_registry, <<"b">>)

\* The priority of the strategy that made a write.
StrategyRank(by) ==
    CASE by = "app_paths" -> 1 [] by = "uninstall" -> 2
      [] by = "filesystem" -> 3 [] by = "where" -> 4

\* C20: discovery writes are ordered by strategy priority and precede all
\* queries.  In every run of _discover_apps the writes so far are in the
\* order of their strategies' priorities; the strategies run one after the
\* other in the order App Paths, uninstall registry, filesystem, where, and
\* the object is idle only after the where strategy; and get_app_path and
\* get_window_pattern are served only while no strategy is running or still
\* to run.
C20_WriteOrdering ==
    [][/\ \A i, j \in 1..Len(run'.writes) :
              i < j => StrategyRank(run'.writes[i].by) <= StrategyRank(run'.writes[j].by)
       /\ pc' # pc =>
              <<pc, pc'>> \in { <<"idle", "app_paths">>, <<"app_paths", "uninstall">>,
                                <<"uninstall", "filesystem">>, <<"filesystem", "where">>,
                                <<"where", "idle">> }
       /\ last'.op \in {"get_app_path", "get_window_pattern"} =>
              pc = "idle" /\ pc' = "idle"
      ]_vars

\* C20's case: the first run has ended, an early strategy and the where
\* strategy both wrote, the early one first.
C20_Witness ==
    /\ DiscoverDone /\ ~run.again /\ calls = 0
    /\ Len(run.writes) >= 2
    /\ run.writes[1].by \in {"app_paths", "uninstall", "filesystem"}
    /\ run.writes[Len(run.writes)].by = "where"

\* C21: every registry key is lower-case and unique.  In every state, each
\* key of the registry equals its own lower-casing, whichever strategy or
\* method stored it, and no two items of the registry have the same key, so
\* that two names differing only in case never are two entries.
C21_LowerCaseUniqueKeys ==
    /\ \A i \in 1..Len(app_registry) : app_registry[i].name = Lower(app_registry[i].name)
    /\ \A i, j \in 1..Len(app_registry) :
           i # j => app_registry[i].name # app_registry[j].name

\* C21's case: the App Paths subkey "A.y" was stored under "a", and
\* add_app("aB", ...) was stored under "ab", with no key "aB".
C21_Witness ==
    /\ last.op = "add_app" /\ last.arg = <<"a", "B">>
    /\ Has(app_registry, <<"a", "b">>) /\ ~Has(app_registry, <<"a", "B">>)
    /\ Has(app_registry, <<"a">>) /\ PathOf(app_registry, <<"a">>) = Target2

\* C22: discovery never changes an existing window pattern.  Every strategy
\* step leaves each item of the window-pattern table as it was, new items
\* going behind them; and every name the App Paths strategy wrote that had no
\* pattern when the strategy started has the title-cased name as its pattern
\* when the strategy ends.
C22_PatternFrame ==
    [][last'.op \in {"app_paths", "uninstall", "filesystem", "where"} =>
           /\ Len(window_patterns') >= Len(window_patterns)
           /\ \A i \in 1..Len(window_patterns) : window_patterns'[i] = window_patterns[i]
           /\ last'.op = "app_paths" =>
                  \A j \in 1..Len(last'.writes) :
                      LET n == last'.writes[j].name
                      IN  ~Has(window_patterns, n) =>
                              /\ Has(window_patterns', n)
                              /\ PatternOf(window_patterns', n) = Title(n)
      ]_vars

\* C22's case: the App Paths strategy wrote "a", whose pattern "G A" of the
\* table is still there, and "c", which had none and now has "C".
C22_Witness ==
    /\ last.op = "app_paths"
    /\ \E j \in 1..Len(last.writes) : last.writes[j].name = <<"a">>
    /\ \E j \in 1..Len(last.writes) : last.writes[j].name = <<"c">>
    /\ PatternOf(window_patterns, <<"a">>) = <<"G", " ", "A">>
    /\ Has(window_patterns, <<"c">>) /\ PatternOf(window_patterns, <<"c">>) = <<"C">>

\* C23: what App Paths and filesystem probing write exists.  When the App
\* Paths strategy or the filesystem strategy has run, every path it wrote
\* names a file that exists; every write of the App Paths strategy is the
\* default value of a readable subkey whose file exists, stored under that
\* subkey's name, so that a subkey whose target does not exist yields no write.
C23_WrittenPathsExist ==
    /\ (last.op \in {"app_paths", "filesystem"} /\ env.known) =>
           \A j \in 1..Len(last.writes) : Exists(env, last.writes[j].path)
    /\ (last.op = "app_paths" /\ env.known) =>
           \A j \in 1..Len(last.writes) :
               \E i \in 1..Len(env.app_paths.subkeys) :
                   LET sk == env.app_paths.subkeys[i]
                   IN  /\ sk.kind = "ok"
                       /\ sk.value = last.writes[j].path
                       /\ Lower(SplitextRoot(sk.subkey)) = last.writes[j].name
                       /\ Exists(env, sk.value)

\* C23's case: the hive has the subkey c.exe, whose target is gone, and the
\* subkey a.exe, whose target exists; the strategy wrote "a" only.
C23_Witness ==
    /\ last.op = "app_paths" /\ env.known
    /\ \E i \in 1..Len(env.app_paths.subkeys) :
           env.app_paths.subkeys[i].value = TargetGone
    /\ Len(last.writes) = 1 /\ last.writes[1].name = <<"a">>
    /\ ~Has(app_registry, <<"c">>)

\* The filesystem strategy's case: it wrote the path of a file found in a
\* subdirectory of a search directory.
C23_WitnessFilesystem ==
    /\ last.op = "filesystem" /\ env.known
    /\ \E j \in 1..Len(last.writes) :
           /\ Len(last.writes[j].path) = 3
           /\ Exists(env, last.writes[j].path)

\* Record i of the Uninstall hive is reached: no record before it ended the
\* enumeration.
UninstallProcessed(i) ==
    \A j \in 1..(i - 1) : env.uninstall.subkeys[j].kind # "noopen"

\* The key of record i, and the first .exe of its install directory's listing.
UninstallKey(i) == SplitWords(Lower(env.uninstall.subkeys[i].display))[1]
FirstExePath(i) ==
    LET location == env.uninstall.subkeys[i].location
        listing == ListDir(env, location)
        n == CHOOSE n \in 1..Len(listing) :
                 /\ EndsWith(Lower(listing[n]), dot_exe)
                 /\ \A m \in 1..(n - 1) : ~EndsWith(Lower(listing[m]), dot_exe)
    IN  Join(location, listing[n])

\* C24: the uninstall strategy.  For every record the strategy processes
\* that has a display name, and an install directory that exists and lists
\* an .exe file: when the record's key was in the registry before the
\* strategy, the key keeps its path and the strategy does not write it; when
\* it was not, the registry afterwards maps the key to the first .exe of the
\* listing of the first such record with that key.  The strategy never writes
\* a key that is present.
C24_UninstallStrategy ==
    [][(last'.op = "uninstall" /\ env.uninstall.open) =>
           /\ \A j \in 1..Len(last'.writes) : ~last'.writes[j].present
           /\ \A i \in 1..Len(env.uninstall.subkeys) :
                  (UninstallProcessed(i) /\ UninstallRecordGood(i)) =>
                      LET k == UninstallKey(i)
                      IN  IF Has(app_registry, k)
                          THEN /\ PathOf(app_registry', k) = PathOf(app_registry, k)
                               /\ \A j \in 1..Len(last'.writes) : last'.writes[j].name # k
                          ELSE (\A h \in 1..(i - 1) :
                                    ~(/\ UninstallProcessed(h) /\ UninstallRecordGood(h)
                                      /\ UninstallKey(h) = k))
                               => /\ Has(app_registry', k)
                                  /\ PathOf(app_registry', k) = FirstExePath(i)
      ]_vars

\* C24's case: the record "C" was processed with "c" absent, and the registry
\* maps "c" to S.EXE, the first .exe of the install directory's listing
\* (a.t, S.EXE, w.exe).
C24_Witness ==
    /\ last.op = "uninstall" /\ env.known
    /\ \E i \in 1..Len(env.uninstall.subkeys) : env.uninstall.subkeys[i].display = <<"C">>
    /\ Has(app_registry, <<"c">>)
    /\ PathOf(app_registry, <<"c">>) = Join(InstallDir, S_EXE)

\* The other case: the record "A b" was processed with "a" present from the
\* App Paths strategy, and the strategy wrote nothing.
C24_WitnessPresent ==
    /\ last.op = "uninstall" /\ env.known
    /\ \E i \in 1..Len(env.uninstall.subkeys) :
           env.uninstall.subkeys[i].display = <<"A", " ", "b">>
    /\ last.writes = <<>>
    /\ \E j \in 1..Len(run.writes) :
           run.writes[j].by = "app_paths" /\ run.writes[j].name = <<"a">>

\* How often the external command was called for file name x.
ProbeCount(probes, x) == Cardinality({k \in 1..Len(probes) : probes[k].exe = x})

\* C25: the where strategy.  Every where step, compared with the registry
\* before it: a well-known name that was present is not looked up and not
\* written; for a name that was absent the candidates are looked up in order,
\* each once, up to and including the first whose command exits 0, the first
\* path that command reported is written, once, and no candidate behind it
\* is looked up; when no command succeeds every candidate was looked up once
\* and nothing is written.  No other file name is looked up.
C25_WhereStrategy ==
    [][last'.op = "where" =>
           /\ \A k \in 1..Len(last'.probes) :
                  \E a \in 1..Len(common_apps) : \E j \in 1..Len(common_apps[a].exes) :
                      /\ last'.probes[k].exe = common_apps[a].exes[j]
                      /\ ~Has(app_registry, common_apps[a].name)
           /\ \A a \in 1..Len(common_apps) :
                  LET app == common_apps[a]
                      succeeding == { j \in 1..Len(app.exes) :
                                        Where(env, app.exes[j]).kind = "ok" }
                      first == CHOOSE j \in succeeding : \A h \in succeeding : j <= h
                      written == { k \in 1..Len(last'.writes) :
                                     last'.writes[k].name = app.name }
                  IN  IF Has(app_registry, app.name)
                      THEN /\ written = {}
                           /\ \A j \in 1..Len(app.exes) :
                                  ProbeCount(last'.probes, app.exes[j]) = 0
                      ELSE IF succeeding = {}
                      THEN /\ written = {}
                           /\ \A j \in 1..Len(app.exes) :
                                  ProbeCount(last'.probes, app.exes[j]) = 1
                      ELSE /\ Cardinality(written) = 1
                           /\ \A k \in written :
                                  last'.writes[k].path
                                      = FirstReported(Where(env, app.exes[first]).lines)
                           /\ PathOf(app_registry', app.name)
                                  = FirstReported(Where(env, app.exes[first]).lines)
                           /\ \A j \in 1..Len(app.exes) :
                                  ProbeCount(last'.probes, app.exes[j])
                                      = IF j <= first THEN 1 ELSE 0
      ]_vars

\* C25's case: "a" was in the registry before the where strategy and was not
\* looked up; "b" was absent, `where B.EXE` succeeded, its first path was
\* written, and `where b.exe` was not called.
C25_Witness ==
    /\ last.op = "where" /\ env.known
    /\ \E j \in 1..Len(run.writes) :
           run.writes[j].by # "where" /\ run.writes[j].name = <<"a">>
    /\ ProbeCount(last.probes, a_exe) = 0
    /\ ProbeCount(last.probes, B_EXE) = 1 /\ ProbeCount(last.probes, b_exe) = 0
    /\ Len(last.writes) = 1 /\ last.writes[1].name = <<"b">>
    /\ last.writes[1].path = Found2

\* C26: lookups answered from the tables are read-only.  Every
\* get_window_pattern step leaves the registry and the pattern table as they
\* were and makes no external call; every get_app_path step makes at most one
\* external call, and when some key of the registry it starts from equals the
\* query, contains it or is contained in it, it makes none, writes nothing and
\* leaves both tables as they were.
C26_ReadOnlyLookups ==
    [][/\ last'.op = "get_window_pattern" =>
              /\ app_registry' = app_registry
              /\ window_patterns' = window_patterns
              /\ last'.probes = <<>> /\ last'.writes = <<>>
       /\ last'.op = "get_app_path" =>
              /\ Len(last'.probes) <= 1
              /\ window_patterns' = window_patterns
              /\ SomeKeyMatches(app_registry, last'.arg) =>
                     /\ last'.probes = <<>> /\ last'.writes = <<>>
                     /\ app_registry' = app_registry
      ]_vars

\* C26's case: get_window_pattern("C") fell back to the title-cased name,
\* no table having a matching key, and the pattern table still has no "c".
C26_Witness ==
    /\ last.op = "get_window_pattern" /\ last.arg = <<"C">>
    /\ last.ret = <<"C">>
    /\ ~Has(window_patterns, <<"c">>)
    /\ app_registry # <<>>

\* The other case: get_app_path("aB") was answered by a partial match, with
\* no external call and no write.
C26_WitnessPartial ==
    /\ last.op = "get_app_path" /\ last.arg = <<"a", "B">>
    /\ ~Has(app_registry, <<"a", "b">>)
    /\ last.found /\ last.probes = <<>> /\ last.writes = <<>>

\* The candidates of _get_search_paths by group, and those of a group that
\* are kept: the non-empty ones that exist in the environment of the call.
SystemDirs ==
    << system_root, Join(system_root, <<"s">>), Join(system_root, <<"y">>),
       program_files, program_files_x86 >>
InstallRoots == << Join(program_files, <<"e">>), Join(program_files_x86, <<"c">>) >>
ProfileDirs ==
    IF env.USERPROFILE # <<>> THEN << Join(env.USERPROFILE, <<"l">>) >> ELSE <<>>
KeptOf(candidates) ==
    SelectSeq(candidates, LAMBDA d : d # <<>> /\ \E q \in AllPaths(env) : LowerPath(q) = LowerPath(d))

\* C27: the search paths exist and keep their order.  While the environment
\* is the one AppRegistry() was constructed in, every entry of
\* self.search_paths is non-empty and exists, and the sequence is the kept
\* system directories, then the kept install roots, then the kept
\* user-profile directories, then the kept PATH entries, each group in its
\* own order: an empty or non-existent candidate is just left out.
C27_SearchPathsExistInOrder ==
    (env.known /\ calls = 0) =>
        /\ \A i \in 1..Len(search_paths) :
               search_paths[i] # <<>> /\ Exists(env, search_paths[i])
        /\ search_paths = KeptOf(SystemDirs) \o KeptOf(InstallRoots)
                              \o KeptOf(ProfileDirs) \o KeptOf(env.PATH)

\* C27's case: PATH names a directory that does not exist and one that does,
\* USERPROFILE is set; the missing directory is left out, and the profile
\* directory comes before the PATH directory.
C27_Witness ==
    /\ env.known /\ calls = 0
    /\ env.PATH = << NoSuchDir, ToolsDir >> /\ env.USERPROFILE = UserProfile
    /\ \A i \in 1..Len(search_paths) : search_paths[i] # NoSuchDir
    /\ search_paths[Len(search_paths)] = ToolsDir
    /\ search_paths[Len(search_paths) - 1] = Join(UserProfile, <<"l">>)

\* C28 as stated: every get_app_path('') on a non-empty registry returns the
\* path of the first-inserted key with no external call, every
\* get_window_pattern('') returns the first pattern of the table, and no step
\* of _open_application or _close_application is a registry lookup of the
\* empty name.
C28_EmptyNameFirstKey ==
    [][/\ (last'.op = "get_app_path" /\ last'.arg = <<>> /\ app_registry # <<>>) =>
              /\ last'.found /\ last'.probes = <<>>
              /\ last'.ret = app_registry[1].path
       /\ (last'.op = "get_window_pattern" /\ last'.arg = <<>>) =>
              last'.ret = window_patterns[1].pattern
       /\ (last'.op = "get_app_path" /\ last'.arg = <<>>) => ~OpenApplication
       /\ (last'.op = "get_window_pattern" /\ last'.arg = <<>>) => ~CloseApplication
      ]_vars

\* C28, amended: the empty name.  Every get_app_path('') on a non-empty
\* registry makes no external call and returns the path stored under the key
\* '' when the registry has that key, and the path of the first-inserted key
\* when it has not; every get_window_pattern('') returns the pattern stored
\* under '' when the table has that key, and the table's first pattern when
\* it has not; and no step of _open_application or _close_application is a
\* registry lookup of the empty name.
C28_EmptyNameAmended ==
    [][/\ (last'.op = "get_app_path" /\ last'.arg = <<>> /\ app_registry # <<>>) =>
              /\ last'.found /\ last'.probes = <<>>
              /\ last'.ret = IF \E i \in 1..Len(app_registry) : app_registry[i].name = <<>>
                             THEN PathOf(app_registry, <<>>)
                             ELSE app_registry[1].path
       /\ (last'.op = "get_window_pattern" /\ last'.arg = <<>>) =>
              last'.ret = IF \E i \in 1..Len(window_patterns) : window_patterns[i].name = <<>>
                          THEN PatternOf(window_patterns, <<>>)
                          ELSE window_patterns[1].pattern
       /\ (last'.op = "get_app_path" /\ last'.arg = <<>>) => ~OpenApplication
       /\ (last'.op = "get_window_pattern" /\ last'.arg = <<>>) => ~CloseApplication
      ]_vars

\* C28's case: the registry holds two keys with different paths, neither of
\* them '', and get_app_path('') returned the path of the first with no
\* external call.
C28_Witness ==
    /\ last.op = "get_app_path" /\ last.arg = <<>>
    /\ Len(app_registry) >= 2 /\ ~Has(app_registry, <<>>)
    /\ app_registry[1].path # app_registry[2].path
    /\ last.found /\ last.probes = <<>> /\ last.ret = app_registry[1].path

\* The executor's case: _open_application('') answered without the registry.
C28_WitnessExecutor ==
    /\ last.op = "_open_application" /\ last.arg = <<>>
    /\ app_registry # <<>>

\* The amendment's case: the registry holds '' behind another key, and
\* get_app_path('') returned the path of '', not the first key's.
C28_WitnessEmptyKey ==
    /\ last.op = "get_app_path" /\ last.arg = <<>>
    /\ Has(app_registry, <<>>) /\ IndexOf(app_registry, <<>>) > 1
    /\ last.ret = PathOf(app_registry, <<>>)
    /\ last.ret # app_registry[1].path

============================================================================
